---- MODULE Spec2Model ----
(***************************************************************************)
(* Model of the Shimmy proxies (lightweight-proxy.py, proxy-wrapper.py,    *)
(* model-downloader-proxy.py).                                             *)
(*                                                                         *)
(* Two specifications share the variables:                                 *)
(*   Spec       the Download Coordinator of model-downloader-proxy.py:     *)
(*              concurrent POST /v1/api/pull requests, one worker thread   *)
(*              per request, over the process-wide current_download        *)
(*              record, and the WSGI server that iterates or closes the    *)
(*              response generator of each accepted pull;                  *)
(*   SpecRelay  one request on an action route (/v1/generate,              *)
(*              /v1/completions, /v1/chat/completions, /v1/models) of one  *)
(*              of the three proxy variants, against a backend that is     *)
(*              down, fails mid-stream, or answers.                        *)
(***************************************************************************)
EXTENDS Integers, Sequences, FiniteSets, TLC

\* ---------------------------------------------------------------- bounds
\* Number of requests the server handles at once (one worker thread each);
\* a thread whose request is over takes the next one.
NumReqs == 2

Reqs == 1..NumReqs

\* ------------------------------------------------------------ vocabulary
\* Python's None (also the value of dict.get for an absent key).
None == "None"

\* Repository ids and file names callers ask for.
Models == {"m1", "m2"}
Files == {"f1"}

\* What request.json gives the pull handler:
\*   kind "unparsable": request.json raises (body is not JSON);
\*   kind "null":       the body parsed to None;
\*   kind "emptydict":  the body is {} ;
\*   kind "list":       the body is a non-empty JSON array (truthy, no .get);
\*   kind "dict":       a JSON object; model/filename are data.get('model')
\*                      and data.get('filename'): None when the key is
\*                      absent, "" when it is the empty string.
NoData == [kind |-> "none", model |-> None, filename |-> None]

Bodies ==
    {[kind |-> k, model |-> None, filename |-> None] :
        k \in {"unparsable", "null", "emptydict", "list"}}
    \cup {[kind |-> "dict", model |-> m, filename |-> f] :
            m \in Models, f \in Files}
    \cup {[kind |-> "dict", model |-> m, filename |-> "f1"] : m \in {None, ""}}
    \cup {[kind |-> "dict", model |-> "m1", filename |-> f] : f \in {None, ""}}
    \cup {[kind |-> "dict", model |-> None, filename |-> None]}

\* File contents, as byte sequences.
GGUF == <<"G", "G", "U", "F">>
GGML == <<"G", "G", "M", "L">>

Contents ==
    { GGUF \o <<"x">>, GGML, <<"G", "G", "U", "X">>, <<"G", "G", "U">> }

NoFile == [exists |-> FALSE, readable |-> FALSE, content |-> <<>>]

\* What hf_hub_download can leave at local_path.
Downloads ==
    {[exists |-> TRUE, readable |-> TRUE, content |-> c] : c \in Contents}
    \cup {[exists |-> TRUE, readable |-> FALSE, content |-> <<>>]}

VARIABLES
    current_download,   \* the module-level dict: in_progress, model, filename
    pc,                 \* where each pull request is
    data,               \* the handler's local `data` (request.json)
    args,               \* the generator's closure: model_repo, filename
    resp,               \* the HTTP response of the handler
    events,             \* the DownloadEvents each pull's stream has yielded
    released,           \* whether the pull's finally block has run
    fs,                 \* MODELS_DIR: file name -> file
    discoverRuns,       \* `shimmy discover` runs made for each pull
    termSignals,        \* `kill -TERM` commands run for each pull
    rq,                 \* the action-route request: variant, route, stream
    rpc,                \* where the action-route request is
    rstatus,            \* the status of the response the handler returned
    rbody,              \* the kind of body of a buffered response
    conn,               \* the backend connection of a streamed relay
    sent,               \* the chunks (lines) the backend has delivered
    out,                \* the chunks the caller has been sent
    failure,            \* how the backend call of the relay failed, if it did
    escaped,            \* an exception left the response generator
    greq,               \* a buffered request: variant, route, request.json
    gpc,                \* where the buffered request is
    native,             \* shimmy_request, the body posted to /api/generate
    backend,            \* what the backend call of the buffered request did
    gresp,              \* the response the handler returned: status, body
    wpc,                \* the statement a pull worker is at
    wargs,              \* model_repo and filename of that pull
    trig,               \* the subprocess runs of the discovery trigger
    sigterms,           \* `kill -TERM` runs that completed, for that pull
    ret,                \* the return value of the discovery trigger
    wevent,             \* `discovered` of the complete event, once yielded
    spc,                \* the field a GET / status report reads next
    report              \* download_status as read so far

pullVars == <<current_download, pc, data, args, resp, events,
              released, fs, discoverRuns, termSignals>>

relayVars == <<rq, rpc, rstatus, rbody, conn, sent, out, failure, escaped>>

gwVars == <<greq, gpc, native, backend, gresp>>

jobVars == <<wpc, wargs, trig, sigterms, ret, wevent, spc, report>>

vars == <<current_download, pc, data, args, resp, events,
          released, fs, discoverRuns, termSignals,
          rq, rpc, rstatus, rbody, conn, sent, out, failure, escaped,
          greq, gpc, native, backend, gresp,
          wpc, wargs, trig, sigterms, ret, wevent, spc, report>>

\* ------------------------------------------------------- DownloadJob state
\* current_download as created at import time.
InitialDownload == [in_progress |-> FALSE, model |-> None, filename |-> None]

\* Lines 123-125: mark the download as in progress.
mark_in_progress(m, f) == [in_progress |-> TRUE, model |-> m, filename |-> f]

\* A finally block that resets in_progress and leaves the two names.
release_lock_flag_only ==
    [in_progress |-> FALSE, model |-> current_download.model,
     filename |-> current_download.filename]

\* The finally block of generate(): lines 176-179.
release_lock == [in_progress |-> FALSE, model |-> None, filename |-> None]

\* The outer except of pull_model: lines 185-188.
outer_except_reset ==
    [in_progress |-> FALSE, model |-> None, filename |-> None]

NoArgs == [model |-> None, filename |-> None]
NoResp == [status |-> 0, model |-> None, filename |-> None]

\* jsonify(...), status
json_response(status) == [status |-> status, model |-> None, filename |-> None]

\* A 409 body with the two names in the wrong places.
conflict_response_swapped(cd) ==
    [status |-> 409, model |-> cd.filename, filename |-> cd.model]

\* The 409 body names current_download['model'] / ['filename'].
conflict_response(cd) ==
    [status |-> 409, model |-> cd.model, filename |-> cd.filename]

\* Python truthiness of `data` (line 102) and of a field (line 108).
data_is_falsy(d) == d.kind \in {"null", "emptydict"}
field_is_falsy(v) == v = None \/ v = ""
\* `and` written for `or` in line 108.
fields_missing_and(d) == field_is_falsy(d.model) /\ field_is_falsy(d.filename)

fields_missing(d) == field_is_falsy(d.model) \/ field_is_falsy(d.filename)

\* request.json raises, or data.get raises AttributeError (data is a list).
handler_raises(d) == d.kind \in {"unparsable", "list"}

\* ------------------------------------------------------------- the events
starting_event(a) ==
    [status |-> "starting", model |-> a.model, filename |-> a.filename,
     discovered |-> FALSE, error |-> None]

complete_event(a, d) ==
    [status |-> "complete", model |-> None, filename |-> a.filename,
     discovered |-> d, error |-> None]

error_event(msg) ==
    [status |-> "error", model |-> None, filename |-> None,
     discovered |-> FALSE, error |-> msg]

\* ------------------------------------------------------ check_gguf_file
\* f.read(4): the first four bytes, fewer when the file is shorter.
read4(c) == SubSeq(c, 1, IF Len(c) < 4 THEN Len(c) ELSE 4)

\* A check that compares three bytes only.
check_gguf_file_prefix3(f) ==
    /\ f.exists
    /\ f.readable
    /\ Len(f.content) >= 3
    /\ (SubSeq(f.content, 1, 3) = SubSeq(GGUF, 1, 3)
        \/ SubSeq(f.content, 1, 3) = SubSeq(GGML, 1, 3))

\* Line 43: magic == b'GGUF' or magic == b'GGML'; False when open() raised.
check_gguf_file(f) ==
    /\ f.exists
    /\ f.readable
    /\ (read4(f.content) = GGUF \/ read4(f.content) = GGML)

\* ------------------------------- trigger_shimmy_discover_and_restart
\* d: `shimmy discover` ("ok" exit 0, "nonzero", "raise": timeout or no binary)
\* g: pgrep ("found", "notfound", "raise": timeout or an unparsable pid)
\* k: kill -TERM ("sent", "raise")
\* pgrep runs only after a discover that exited 0, kill only for a found pid.
DiscoverOutcomes == {"ok", "nonzero", "raise"}
PgrepOutcomes == {"found", "notfound", "raise"}
KillOutcomes == {"sent", "raise"}

\* A return value that is True only when the signal was sent.
discover_success_strict(d, g, k) == d = "ok" /\ g = "found" /\ k = "sent"

\* The return value: lines 58-62, 79, 82, 85, 89.
discover_success(d, g, k) == d = "ok"

\* Whether line 77 ran kill -TERM to completion.
sigterm_sent(d, g, k) == d = "ok" /\ g = "found" /\ k = "sent"

\* ------------------------------------------------------------- generate()
\* The validation failure branch without its `return`: the generator goes
\* on to os.path.getsize.
invalid_next_pc_no_return == "checked"

\* Where the generator is after the validation failure branch (lines
\* 150-152: yield the error, then return).
invalid_next_pc == "error"

\* The generator is suspended at a yield.
AtYield(p) == pc[p] \in {"starting", "error", "complete"}

\* The pull is between its acceptance and the end of its stream.
Active(p) == pc[p] \in {"created", "starting", "fetched", "checked",
                        "validated", "error", "complete"}

local_path(p) == args[p].filename

emit(p, e) == [events EXCEPT ![p] = Append(@, e)]

\* ------------------------------------------------------------------ Init
PullInit ==
    /\ current_download = InitialDownload
    /\ pc = [p \in Reqs |-> "new"]
    /\ data = [p \in Reqs |-> NoData]
    /\ args = [p \in Reqs |-> NoArgs]
    /\ resp = [p \in Reqs |-> NoResp]
    /\ events = [p \in Reqs |-> <<>>]
    /\ released = [p \in Reqs |-> FALSE]
    /\ fs = [f \in Files |-> NoFile]
    /\ discoverRuns = [p \in Reqs |-> 0]
    /\ termSignals = [p \in Reqs |-> 0]

\* --------------------------------------------------------------- actions
\* A POST /v1/api/pull request reaches a worker thread.
Arrive(p) ==
    /\ UNCHANGED <<relayVars, gwVars, jobVars>>
    /\ pc[p] = "new"
    /\ \E d \in Bodies : data' = [data EXCEPT ![p] = d]
    /\ pc' = [pc EXCEPT ![p] = "arrived"]
    /\ UNCHANGED <<current_download, args, resp, events, released,
                   fs, discoverRuns, termSignals>>

\* The handler pull_model, lines 100-190, up to its return.  The only
\* accesses to current_download are inside `with download_lock`, so the
\* handler is one step.
pull_model(p) ==
    /\ UNCHANGED <<relayVars, gwVars, jobVars>>
    /\ pc[p] = "arrived"
    /\ LET d == data[p] IN
       IF handler_raises(d)
       THEN \* outer except, lines 183-190
            /\ current_download' = outer_except_reset
            /\ resp' = [resp EXCEPT ![p] = json_response(500)]
            /\ pc' = [pc EXCEPT ![p] = "responded"]
            /\ UNCHANGED args
       ELSE IF data_is_falsy(d) \/ fields_missing(d)
       THEN \* lines 102-112
            /\ resp' = [resp EXCEPT ![p] = json_response(400)]
            /\ pc' = [pc EXCEPT ![p] = "responded"]
            /\ UNCHANGED <<current_download, args>>
       ELSE IF current_download.in_progress
       THEN \* lines 116-120
            /\ resp' = [resp EXCEPT ![p] = conflict_response(current_download)]
            /\ pc' = [pc EXCEPT ![p] = "responded"]
            /\ UNCHANGED <<current_download, args>>
       ELSE \* lines 123-125, 181
            /\ current_download' = mark_in_progress(d.model, d.filename)
            /\ args' = [args EXCEPT ![p] =
                          [model |-> d.model, filename |-> d.filename]]
            /\ resp' = [resp EXCEPT ![p] = json_response(200)]
            /\ pc' = [pc EXCEPT ![p] = "created"]
    /\ data' = [data EXCEPT ![p] = NoData]
    /\ UNCHANGED <<events, released, fs, discoverRuns, termSignals>>

\* The server's first next() on the response: the generator runs to its
\* first yield (line 131).
GenStart(p) ==
    /\ UNCHANGED <<relayVars, gwVars, jobVars>>
    /\ pc[p] = "created"
    /\ events' = emit(p, starting_event(args[p]))
    /\ pc' = [pc EXCEPT ![p] = "starting"]
    /\ UNCHANGED <<current_download, data, args, resp, released, fs,
                   discoverRuns, termSignals>>

\* The server closes the response before iterating it (the caller is gone
\* before the body was begun).  close() on a generator that has not started
\* runs none of its body: the try/finally of generate() is never entered.
CloseUnstarted(p) ==
    /\ UNCHANGED <<relayVars, gwVars, jobVars>>
    /\ pc[p] = "created"
    /\ pc' = [pc EXCEPT ![p] = "closed"]
    /\ UNCHANGED <<current_download, data, args, resp, events,
                   released, fs, discoverRuns, termSignals>>

\* Resumed after `starting`: os.makedirs and hf_hub_download, lines 135-146.
\* Either raises (HfHubHTTPError or another exception: lines 166-173),
\* or the file is written to MODELS_DIR/filename.
Fetch(p) ==
    /\ UNCHANGED <<relayVars, gwVars, jobVars>>
    /\ pc[p] = "starting"
    /\ \/ \E msg \in {"HuggingFace error", "Download failed"} :
            /\ events' = emit(p, error_event(msg))
            /\ pc' = [pc EXCEPT ![p] = "error"]
            /\ UNCHANGED fs
       \/ \E f \in Downloads :
            /\ fs' = [fs EXCEPT ![local_path(p)] = f]
            /\ pc' = [pc EXCEPT ![p] = "fetched"]
            /\ UNCHANGED events
    /\ UNCHANGED <<current_download, data, args, resp, released,
                   discoverRuns, termSignals>>

\* Lines 148-152: check_gguf_file; on failure os.remove(local_path), which
\* raises FileNotFoundError when the file is no longer there (except
\* Exception, lines 170-173), else yield the error and return.
Validate(p) ==
    /\ UNCHANGED <<relayVars, gwVars, jobVars>>
    /\ pc[p] = "fetched"
    /\ IF check_gguf_file(fs[local_path(p)])
       THEN /\ pc' = [pc EXCEPT ![p] = "checked"]
            /\ UNCHANGED <<fs, events>>
       ELSE IF fs[local_path(p)].exists
       THEN /\ fs' = [fs EXCEPT ![local_path(p)] = NoFile]
            /\ events' = emit(p, error_event("not a valid GGUF/GGML model"))
            /\ pc' = [pc EXCEPT ![p] = invalid_next_pc]
       ELSE /\ events' = emit(p, error_event("Download failed"))
            /\ pc' = [pc EXCEPT ![p] = "error"]
            /\ UNCHANGED fs
    /\ UNCHANGED <<current_download, data, args, resp, released,
                   discoverRuns, termSignals>>

\* Lines 154-156: os.path.getsize(local_path), which raises when the file is
\* no longer there.
Size(p) ==
    /\ UNCHANGED <<relayVars, gwVars, jobVars>>
    /\ pc[p] = "checked"
    /\ IF fs[local_path(p)].exists
       THEN /\ pc' = [pc EXCEPT ![p] = "validated"]
            /\ UNCHANGED events
       ELSE /\ events' = emit(p, error_event("Download failed"))
            /\ pc' = [pc EXCEPT ![p] = "error"]
    /\ UNCHANGED <<current_download, data, args, resp, released, fs,
                   discoverRuns, termSignals>>

\* Lines 158-163: trigger_shimmy_discover_and_restart, then yield `complete`.
Discover(p) ==
    /\ UNCHANGED <<relayVars, gwVars, jobVars>>
    /\ pc[p] = "validated"
    /\ \E d \in DiscoverOutcomes :
       \E g \in (IF d = "ok" THEN PgrepOutcomes ELSE {"not run"}) :
       \E k \in (IF g = "found" THEN KillOutcomes ELSE {"not run"}) :
        /\ discoverRuns' = [discoverRuns EXCEPT ![p] = @ + 1]
        /\ termSignals' = [termSignals EXCEPT ![p] =
                             IF sigterm_sent(d, g, k) THEN @ + 1 ELSE @]
        /\ events' = emit(p, complete_event(args[p], discover_success(d, g, k)))
    /\ pc' = [pc EXCEPT ![p] = "complete"]
    /\ UNCHANGED <<current_download, data, args, resp, released, fs>>

\* Resumed after the last yield (`complete` or `error`): the generator
\* leaves the try, runs finally (lines 174-179) and is exhausted.
Finish(p) ==
    /\ UNCHANGED <<relayVars, gwVars, jobVars>>
    /\ pc[p] \in {"error", "complete"}
    /\ current_download' = release_lock
    /\ released' = [released EXCEPT ![p] = TRUE]
    /\ pc' = [pc EXCEPT ![p] = "done"]
    /\ UNCHANGED <<data, args, resp, events, fs, discoverRuns,
                   termSignals>>

\* The server closes the response while the generator is suspended at a
\* yield (the caller disconnected): GeneratorExit is raised at the yield,
\* no except clause catches it, finally runs.
Close(p) ==
    /\ UNCHANGED <<relayVars, gwVars, jobVars>>
    /\ AtYield(p)
    /\ current_download' = release_lock
    /\ released' = [released EXCEPT ![p] = TRUE]
    /\ pc' = [pc EXCEPT ![p] = "closed"]
    /\ UNCHANGED <<data, args, resp, events, fs, discoverRuns,
                   termSignals>>

\* The request is over (its response was sent, its stream ended or was
\* closed): its thread and locals are gone, the next request may arrive.
Retire(p) ==
    /\ UNCHANGED <<relayVars, gwVars, jobVars>>
    /\ pc[p] \in {"responded", "done", "closed"}
    /\ pc' = [pc EXCEPT ![p] = "new"]
    /\ args' = [args EXCEPT ![p] = NoArgs]
    /\ resp' = [resp EXCEPT ![p] = NoResp]
    /\ events' = [events EXCEPT ![p] = <<>>]
    /\ released' = [released EXCEPT ![p] = FALSE]
    /\ discoverRuns' = [discoverRuns EXCEPT ![p] = 0]
    /\ termSignals' = [termSignals EXCEPT ![p] = 0]
    /\ UNCHANGED <<current_download, data, fs>>

Next ==
    \E p \in Reqs :
        \/ Arrive(p)
        \/ pull_model(p)
        \/ GenStart(p)
        \/ CloseUnstarted(p)
        \/ Fetch(p)
        \/ Validate(p)
        \/ Size(p)
        \/ Discover(p)
        \/ Finish(p)
        \/ Close(p)
        \/ Retire(p)

\* ======================================================== action routes
\* Chunks the backend delivers to one streamed relay.
MaxChunks == 2

Variants == {"lightweight", "downloader", "wrapper"}

\* The action routes each variant serves: proxy-wrapper.py has no
\* /v1/generate; GET /v1/models carries no body, hence no `stream`.
Requests ==
    {[variant |-> v, route |-> "generate", stream |-> st] :
        v \in {"lightweight", "downloader"}, st \in BOOLEAN}
    \cup {[variant |-> v, route |-> r, stream |-> st] :
        v \in Variants, r \in {"completions", "chat"}, st \in BOOLEAN}
    \cup {[variant |-> v, route |-> "models", stream |-> FALSE] :
        v \in Variants}

NoRequest == [variant |-> "none", route |-> "none", stream |-> FALSE]

\* What a requests.get / requests.post of a buffered call can do: raise
\* ConnectionError ("refused") or Timeout ("timeout"), both
\* RequestExceptions, or return a response with a status and a body that
\* resp.json() parses or not.
BackendStatuses == {200, 500}

BackendCalls ==
    {[conn |-> c, status |-> 0, json_ok |-> FALSE] : c \in {"refused", "timeout"}}
    \cup {[conn |-> "ok", status |-> st, json_ok |-> j] :
            st \in BackendStatuses, j \in BOOLEAN}

\* The chunks of resp.iter_content (the lines of resp.iter_lines); "" is an
\* empty one.
Chunks == {"", "a", "b"}

\* The relay's own error object, f'{{"error": "{str(e)}"}}\n'.
ErrorChunk == "{error}"

\* An except clause that answers 503, as the health route does.
passthrough_result_503(b) ==
    IF b.conn # "ok" \/ ~b.json_ok
    THEN [status |-> 503, body |-> "error"]
    ELSE [status |-> b.status, body |-> "backend"]

\* `return resp.json(), resp.status_code` inside a try whose except clauses
\* answer 500 with {"error": ...}: v1_generate of both passthrough variants,
\* v1_completions of the lightweight and downloader variants, v1_models of
\* proxy-wrapper.py.
passthrough_result(b) ==
    IF b.conn # "ok" \/ ~b.json_ok
    THEN [status |-> 500, body |-> "error"]
    ELSE [status |-> b.status, body |-> "backend"]

\* proxy-wrapper.py v1_completions, lines 83-139: the envelope is returned
\* with the backend's status code.
envelope_result(b) ==
    IF b.conn # "ok" \/ ~b.json_ok
    THEN [status |-> 500, body |-> "error"]
    ELSE [status |-> b.status, body |-> "envelope"]

\* Response(generate(), mimetype=...): the status of a streamed response.
stream_status == 200

\* A passthrough that ends every chunk with a newline.
raw_frame_newline(c) == c \o "\n"

\* Raw passthrough, `yield chunk`.
raw_frame(c) == c

\* A re-framing that yields the line as iter_lines gave it.
line_frame_bare(c) == c

\* Line-delimited re-framing, `yield line + b'\n'`.
line_frame(c) == c \o "\n"

frame(r, c) == IF r.route = "generate" THEN raw_frame(c) ELSE line_frame(c)

\* v1_generate.generate wraps the relay in try / except Exception and yields
\* the error object; v1_completions.generate of proxy-wrapper.py has no try.
generator_catches(r) == r.route = "generate"

RelayInit ==
    /\ rq = NoRequest
    /\ rpc = "new"
    /\ rstatus = 0
    /\ rbody = "none"
    /\ conn = "none"
    /\ sent = <<>>
    /\ out = <<>>
    /\ failure = "none"
    /\ escaped = FALSE

\* A request arrives on an action route.
Receive ==
    /\ UNCHANGED <<pullVars, gwVars, jobVars>>
    /\ rpc = "new"
    /\ \E r \in Requests : rq' = r
    /\ rpc' = "received"
    /\ UNCHANGED <<rstatus, rbody, conn, sent, out, failure, escaped>>

\* The handler answered with a buffered body.
Answer(res, b) ==
    /\ rstatus' = res.status
    /\ rbody' = res.body
    /\ failure' = IF b.conn = "ok" THEN "none" ELSE b.conn
    /\ rpc' = "responded"
    /\ UNCHANGED <<rq, conn, sent, out, escaped>>

\* The handler returned Response(generate()): nothing has run yet.
AnswerStream ==
    /\ rstatus' = stream_status
    /\ rbody' = "stream"
    /\ rpc' = "created"
    /\ UNCHANGED <<rq, conn, sent, out, failure, escaped>>

\* POST /v1/generate of lightweight-proxy.py and model-downloader-proxy.py.
v1_generate ==
    /\ UNCHANGED <<pullVars, gwVars, jobVars>>
    /\ rpc = "received"
    /\ rq.route = "generate"
    /\ IF rq.stream
       THEN AnswerStream
       ELSE \E b \in BackendCalls : Answer(passthrough_result(b), b)

\* POST /v1/completions and /v1/chat/completions.
v1_completions ==
    /\ UNCHANGED <<pullVars, gwVars, jobVars>>
    /\ rpc = "received"
    /\ rq.route \in {"completions", "chat"}
    /\ IF rq.variant = "wrapper"
       THEN IF rq.stream
            THEN AnswerStream
            ELSE \E b \in BackendCalls : Answer(envelope_result(b), b)
       ELSE \E b \in BackendCalls : Answer(passthrough_result(b), b)

\* GET /v1/models.  The passthrough variants catch RequestException only: a
\* body resp.json() cannot parse raises a RequestException in requests
\* 2.27 and later and a plain ValueError before, which Flask answers with
\* its own 500 page.
v1_models ==
    /\ UNCHANGED <<pullVars, gwVars, jobVars>>
    /\ rpc = "received"
    /\ rq.route = "models"
    /\ \E b \in BackendCalls :
        \/ Answer(passthrough_result(b), b)
        \/ /\ rq.variant # "wrapper"
           /\ b.conn = "ok"
           /\ ~b.json_ok
           /\ Answer([status |-> 500, body |-> "unhandled"], b)

\* An exception raised inside the generator: caught and turned into the
\* error object, or left to the server.
Raise(f) ==
    /\ failure' = f
    /\ IF generator_catches(rq)
       THEN /\ out' = Append(out, ErrorChunk)
            /\ rpc' = "error_yielded"
            /\ UNCHANGED escaped
       ELSE /\ escaped' = TRUE
            /\ rpc' = "ended"
            /\ UNCHANGED out

\* The server's first next(): requests.post(..., stream=True).
StreamConnect ==
    /\ UNCHANGED <<pullVars, gwVars, jobVars>>
    /\ rpc = "created"
    /\ \/ /\ conn' = "open"
          /\ rpc' = "reading"
          /\ UNCHANGED <<out, failure, escaped>>
       \/ \E f \in {"refused", "timeout"} :
          /\ Raise(f)
          /\ UNCHANGED conn
    /\ UNCHANGED <<rq, rstatus, rbody, sent>>

\* The loop over resp.iter_content / resp.iter_lines: the next chunk (an
\* empty one is skipped, another is yielded), the end of the stream, or a
\* failure of the backend connection.
StreamRead ==
    /\ UNCHANGED <<pullVars, gwVars, jobVars>>
    /\ rpc \in {"reading", "yielded"}
    /\ \/ \E c \in Chunks :
          /\ Len(sent) < MaxChunks
          /\ sent' = Append(sent, c)
          /\ IF c # ""
             THEN /\ out' = Append(out, frame(rq, c))
                  /\ rpc' = "yielded"
             ELSE /\ rpc' = "reading"
                  /\ UNCHANGED out
          /\ UNCHANGED <<conn, failure, escaped>>
       \/ /\ conn' = "closed"
          /\ rpc' = "ended"
          /\ UNCHANGED <<sent, out, failure, escaped>>
       \/ /\ Raise("midstream")
          /\ conn' = "closed"
          /\ UNCHANGED sent
    /\ UNCHANGED <<rq, rstatus, rbody>>

\* Resumed after the error object: the generator is exhausted.
StreamFinish ==
    /\ UNCHANGED <<pullVars, gwVars, jobVars>>
    /\ rpc = "error_yielded"
    /\ rpc' = "ended"
    /\ UNCHANGED <<rq, rstatus, rbody, conn, sent, out, failure, escaped>>

\* A generator whose close leaves the backend connection as it is.
release_connection_leak(c) == c

\* Leaving `with requests.post(...) as resp`: the response is closed and its
\* connection released; nothing to release when the post was never made.
release_connection(c) == IF c = "open" THEN "closed" ELSE c

\* The caller disconnects and the server closes the generator: GeneratorExit
\* at the yield (not an Exception), the `with` block releases the connection.
StreamClose ==
    /\ UNCHANGED <<pullVars, gwVars, jobVars>>
    /\ rpc \in {"created", "yielded", "error_yielded"}
    /\ conn' = release_connection(conn)
    /\ rpc' = "closed"
    /\ UNCHANGED <<rq, rstatus, rbody, sent, out, failure, escaped>>

NextRelay ==
    \/ Receive
    \/ v1_generate
    \/ v1_completions
    \/ v1_models
    \/ StreamConnect
    \/ StreamRead
    \/ StreamFinish
    \/ StreamClose

\* ==================================================== buffered requests
\* GET /v1/health and the non-streamed POST /v1/completions and
\* /v1/chat/completions, with the request and response bodies.

\* Messages in the `messages` list of one request.
MaxMsgs == 2

\* A key of a JSON object: present with a value, or absent.
Some(v) == [has |-> TRUE, val |-> v]
NoStr == [has |-> FALSE, val |-> ""]
NoNum == [has |-> FALSE, val |-> 0]
NoBool == [has |-> FALSE, val |-> FALSE]
NoList == [has |-> FALSE, val |-> <<>>]

\* dict.get(key, default)
get(o, default) == IF o.has THEN o.val ELSE default

\* The msg objects of a `messages` list.
ChatMessages ==
    { [role |-> Some("user"), content |-> Some("hi")],
      [role |-> Some("assistant"), content |-> Some("")],
      [role |-> NoStr, content |-> NoStr] }

MessageLists == UNION {[1..n -> ChatMessages] : n \in 0..MaxMsgs}

\* request.json of the completions routes: a JSON object with any of its
\* keys absent.  Numbers with a fraction are written as their JSON text.
ExternalRequests ==
    [messages : {NoList} \cup {Some(l) : l \in MessageLists},
     prompt : {NoStr, Some("p")},
     model : {NoStr, Some("m1")},
     stream : {NoBool, Some(FALSE), Some(TRUE)},
     temperature : {NoStr, Some("0.2")},
     max_tokens : {NoNum, Some(64)},
     top_p : {NoStr, Some("0.9")},
     frequency_penalty : {NoStr, Some("0.5")},
     presence_penalty : {NoStr, Some("0.5")}]

\* A request without a body (GET).
NoExternal ==
    [messages |-> NoList, prompt |-> NoStr, model |-> NoStr,
     stream |-> NoBool, temperature |-> NoStr, max_tokens |-> NoNum,
     top_p |-> NoStr, frequency_penalty |-> NoStr,
     presence_penalty |-> NoStr]

GatewayRequests ==
    {[variant |-> v, route |-> "health", data |-> NoExternal] : v \in Variants}
    \cup {[variant |-> v, route |-> "completions", data |-> d] :
            v \in Variants, d \in ExternalRequests}

NoGatewayRequest == [variant |-> "none", route |-> "none", data |-> NoExternal]

\* f"{msg.get('role', 'user')}:{msg.get('content', '')}", the blank lost.
format_message_no_space(msg) ==
    get(msg.role, "user") \o ":" \o get(msg.content, "")

\* f"{msg.get('role', 'user')}: {msg.get('content', '')}"
format_message(msg) ==
    get(msg.role, "user") \o ": " \o get(msg.content, "")

\* sep.join(xs)
RECURSIVE join(_, _)
join(sep, xs) ==
    IF xs = <<>> THEN ""
    ELSE IF Len(xs) = 1 THEN xs[1]
    ELSE join(sep, SubSeq(xs, 1, Len(xs) - 1)) \o sep \o xs[Len(xs)]

\* `prompt` of v1_completions: the joined messages if 'messages' in data,
\* else data.get('prompt', '').
derive_prompt(d) ==
    IF d.messages.has
    THEN join("\n", [i \in 1..Len(d.messages.val) |->
                        format_message(d.messages.val[i])])
    ELSE get(d.prompt, "")

\* shimmy_request before it is built.
NoNative ==
    [model |-> NoStr, prompt |-> NoStr, stream |-> NoBool,
     temperature |-> NoStr, max_tokens |-> NoNum, top_p |-> NoStr,
     frequency_penalty |-> NoStr, presence_penalty |-> NoStr]

\* shimmy_request of proxy-wrapper.py (eight keys) and of the other two
\* variants (five keys).
shimmy_request(v, d) ==
    IF v = "wrapper"
    THEN [model |-> Some(get(d.model, "phi3-lora")),
          prompt |-> Some(derive_prompt(d)),
          stream |-> Some(get(d.stream, FALSE)),
          temperature |-> Some(get(d.temperature, "0.7")),
          max_tokens |-> Some(get(d.max_tokens, 512)),
          top_p |-> Some(get(d.top_p, "1.0")),
          frequency_penalty |-> Some(get(d.frequency_penalty, "0.0")),
          presence_penalty |-> Some(get(d.presence_penalty, "0.0"))]
    ELSE [model |-> Some(get(d.model, "")),
          prompt |-> Some(derive_prompt(d)),
          stream |-> Some(get(d.stream, FALSE)),
          temperature |-> Some(get(d.temperature, "0.7")),
          max_tokens |-> Some(get(d.max_tokens, 512)),
          top_p |-> NoStr,
          frequency_penalty |-> NoStr,
          presence_penalty |-> NoStr]

\* The JSON body of a backend answer: a GenerateResult with any of its keys
\* absent.
NoResult == [response |-> NoStr, prompt_eval_count |-> NoNum,
             eval_count |-> NoNum]

\* What requests.post(/api/generate, json=n) can do: raise (refused,
\* timeout), answer a body that resp.json() cannot parse, or answer a JSON
\* object: one that echoes the prompt, a full GenerateResult, or an object
\* with none of the three keys.
GenerateCalls(n) ==
    {[conn |-> c, status |-> 0, json_ok |-> FALSE, kind |-> "none",
      result |-> NoResult] : c \in {"refused", "timeout"}}
    \cup {[conn |-> "ok", status |-> st, json_ok |-> FALSE, kind |-> "text",
           result |-> NoResult] : st \in BackendStatuses}
    \cup {[conn |-> "ok", status |-> st, json_ok |-> TRUE, kind |-> "echo",
           result |-> [response |-> Some(n.prompt.val),
                       prompt_eval_count |-> NoNum,
                       eval_count |-> NoNum]] : st \in BackendStatuses}
    \cup {[conn |-> "ok", status |-> st, json_ok |-> TRUE, kind |-> "full",
           result |-> [response |-> Some("hello"),
                       prompt_eval_count |-> Some(3),
                       eval_count |-> Some(2)]] : st \in BackendStatuses}
    \cup {[conn |-> "ok", status |-> st, json_ok |-> TRUE, kind |-> "bare",
           result |-> NoResult] : st \in BackendStatuses}

\* What requests.get(/health) can do.
HealthCalls ==
    {[conn |-> b.conn, status |-> b.status, json_ok |-> b.json_ok,
      kind |-> "health", result |-> NoResult] : b \in BackendCalls}

NoCall == [conn |-> "none", status |-> 0, json_ok |-> FALSE, kind |-> "none",
           result |-> NoResult]

NoUsage == [has |-> FALSE, prompt_tokens |-> 0, completion_tokens |-> 0,
            total_tokens |-> 0]

\* A usage block whose total leaves the prompt tokens out.
usage_completion_only(r) ==
    [has |-> TRUE,
     prompt_tokens |-> get(r.prompt_eval_count, 0),
     completion_tokens |-> get(r.eval_count, 0),
     total_tokens |-> get(r.eval_count, 0)]

\* "usage" of the chat envelope, lines 108-112.
usage(r) ==
    [has |-> TRUE,
     prompt_tokens |-> get(r.prompt_eval_count, 0),
     completion_tokens |-> get(r.eval_count, 0),
     total_tokens |-> get(r.prompt_eval_count, 0) + get(r.eval_count, 0)]

\* A lookup of a key the backend does not send.
response_text_wrong_key(r) == ""

\* shimmy_resp.get("response", "")
response_text(r) == get(r.response, "")

\* A response body: kind "error" is the proxy's {"error": ...}, "unhealthy"
\* {"status": "unhealthy", "error": ...}, "error_message" {"status":
\* "error", "message": ...}, "unhandled" the server's own 500 page, "native"
\* the backend's JSON body (in `result`), "envelope" the OpenAI-style body,
\* "stream" a streamed response.
NoBody ==
    [kind |-> "none", object |-> "", id_prefix |-> "", model |-> "",
     role |-> "", content |-> NoStr, text |-> NoStr, finish_reason |-> "",
     usage |-> NoUsage, result |-> NoResult]

body_of(k) == [NoBody EXCEPT !.kind = k]

native_body(r) == [NoBody EXCEPT !.kind = "native", !.result = r]

\* openai_resp of proxy-wrapper.py, lines 93-126 (without `created`, the time of the call).
to_external(d, r) ==
    IF d.messages.has
    THEN [NoBody EXCEPT
            !.kind = "envelope",
            !.object = "chat.completion",
            !.id_prefix = "chatcmpl-",
            !.model = get(d.model, "phi3-lora"),
            !.role = "assistant",
            !.content = Some(response_text(r)),
            !.finish_reason = "stop",
            !.usage = usage(r)]
    ELSE [NoBody EXCEPT
            !.kind = "envelope",
            !.object = "text_completion",
            !.id_prefix = "cmpl-",
            !.model = get(d.model, "phi3-lora"),
            !.text = Some(response_text(r)),
            !.finish_reason = "stop"]

NoResponse == [status |-> 0, body |-> NoBody]

GatewayInit ==
    /\ greq = NoGatewayRequest
    /\ gpc = "new"
    /\ native = NoNative
    /\ backend = NoCall
    /\ gresp = NoResponse

\* A buffered request arrives.
GatewayReceive ==
    /\ UNCHANGED <<pullVars, relayVars, jobVars>>
    /\ gpc = "new"
    /\ \E r \in GatewayRequests : greq' = r
    /\ gpc' = "received"
    /\ UNCHANGED <<native, backend, gresp>>

\* GET /v1/health of the three variants.  lightweight-proxy.py and
\* model-downloader-proxy.py catch RequestException and answer
\* {"status": "unhealthy", "error": ...}; proxy-wrapper.py catches Exception
\* and answers {"status": "error", "message": ...}.  A body resp.json()
\* cannot parse raises a RequestException in requests 2.27 and later and a
\* plain ValueError before, which Flask answers with its own 500 page.
v1_health ==
    /\ UNCHANGED <<pullVars, relayVars, jobVars>>
    /\ gpc = "received"
    /\ greq.route = "health"
    /\ \E b \in HealthCalls :
        /\ backend' = b
        /\ \/ /\ b.conn = "ok" /\ b.json_ok
              /\ gresp' = [status |-> b.status, body |-> body_of("backend")]
           \/ /\ b.conn # "ok" \/ ~b.json_ok
              /\ gresp' = [status |-> 503,
                           body |-> IF greq.variant = "wrapper"
                                    THEN body_of("error_message")
                                    ELSE body_of("unhealthy")]
           \/ /\ b.conn = "ok" /\ ~b.json_ok
              /\ greq.variant # "wrapper"
              /\ gresp' = [status |-> 500, body |-> body_of("unhandled")]
    /\ gpc' = "responded"
    /\ UNCHANGED <<greq, native>>

\* What the handler returns once the backend call b is made.
completions_response(v, d, b) ==
    IF b.conn # "ok" \/ ~b.json_ok
    THEN [status |-> 500, body |-> body_of("error")]
    ELSE IF v = "wrapper"
    THEN [status |-> b.status, body |-> to_external(d, b.result)]
    ELSE [status |-> b.status, body |-> native_body(b.result)]

\* POST /v1/completions and /v1/chat/completions with request.json = data:
\* build shimmy_request; proxy-wrapper.py answers a stream when its
\* `stream` is truthy; else post it and answer (the envelope in
\* proxy-wrapper.py, the backend's body in the other two variants), or 500
\* when the call or resp.json() raises.
v1_completions_buffered ==
    /\ UNCHANGED <<pullVars, relayVars, jobVars>>
    /\ gpc = "received"
    /\ greq.route = "completions"
    /\ LET n == shimmy_request(greq.variant, greq.data) IN
        /\ native' = n
        /\ IF greq.variant = "wrapper" /\ n.stream.val
           THEN /\ backend' = NoCall
                /\ gresp' = [status |-> stream_status,
                             body |-> body_of("stream")]
           ELSE \E b \in GenerateCalls(n) :
                /\ backend' = b
                /\ gresp' = completions_response(greq.variant, greq.data, b)
    /\ gpc' = "responded"
    /\ UNCHANGED greq

NextGateway ==
    \/ GatewayReceive
    \/ v1_health
    \/ v1_completions_buffered

\* ======================================================= status report
\* One pull worker, statement by statement where it writes current_download
\* and where it runs the discovery trigger, and one GET / request, which
\* reads current_download without download_lock.

NoTrigger == [discover |-> "not run", pgrep |-> "not run", kill |-> "not run"]

NoReport == [in_progress |-> FALSE, current_model |-> None,
             current_filename |-> None]

StatusInit ==
    /\ wpc = "idle"
    /\ wargs = NoArgs
    /\ trig = NoTrigger
    /\ sigterms = 0
    /\ ret = NoBool
    /\ wevent = NoBool
    /\ spc = "idle"
    /\ report = NoReport

pullRest == <<pc, data, args, resp, events, released, fs, discoverRuns,
              termSignals>>

readerVars == <<spc, report>>

\* Line 123, after the check of line 116 found no download in progress:
\* current_download["in_progress"] = True.
acquire_in_progress ==
    /\ UNCHANGED <<pullRest, relayVars, gwVars, readerVars>>
    /\ wpc = "idle"
    /\ ~current_download.in_progress
    /\ \E m \in Models, f \in Files : wargs' = [model |-> m, filename |-> f]
    /\ current_download' = [current_download EXCEPT !.in_progress = TRUE]
    /\ wpc' = "acquire_model"
    /\ trig' = NoTrigger
    /\ sigterms' = 0
    /\ ret' = NoBool
    /\ wevent' = NoBool

\* Line 124: current_download["model"] = model_repo.
acquire_model ==
    /\ UNCHANGED <<pullRest, relayVars, gwVars, readerVars>>
    /\ wpc = "acquire_model"
    /\ current_download' = [current_download EXCEPT !.model = wargs.model]
    /\ wpc' = "acquire_filename"
    /\ UNCHANGED <<wargs, trig, sigterms, ret, wevent>>

\* Line 125: current_download["filename"] = filename; the lock is released
\* and the handler returns the streamed response.
acquire_filename ==
    /\ UNCHANGED <<pullRest, relayVars, gwVars, readerVars>>
    /\ wpc = "acquire_filename"
    /\ current_download' = [current_download EXCEPT !.filename = wargs.filename]
    /\ wpc' = "downloading"
    /\ UNCHANGED <<wargs, trig, sigterms, ret, wevent>>

\* Lines 131-156: the starting event, the fetch, the validation and the
\* size: the generator reaches the discovery trigger, or yields an error.
download ==
    /\ UNCHANGED <<pullVars, relayVars, gwVars, readerVars>>
    /\ wpc = "downloading"
    /\ wpc' \in {"discover", "error"}
    /\ UNCHANGED <<wargs, trig, sigterms, ret, wevent>>

\* Lines 52-62 and 87-89: subprocess.run(['shimmy', 'discover']); return
\* False when it exits non-zero or raises.
run_discover ==
    /\ UNCHANGED <<pullVars, relayVars, gwVars, readerVars>>
    /\ wpc = "discover"
    /\ \E d \in DiscoverOutcomes :
        /\ trig' = [trig EXCEPT !.discover = d]
        /\ IF d = "ok"
           THEN /\ wpc' = "pgrep"
                /\ UNCHANGED ret
           ELSE /\ wpc' = "returned"
                /\ ret' = Some(discover_success(d, "not run", "not run"))
    /\ UNCHANGED <<wargs, sigterms, wevent>>

\* Lines 66-74 and 80-85: subprocess.run(['pgrep', '-f', 'shimmy serve']);
\* return True when no process is found or the lookup raises.
run_pgrep ==
    /\ UNCHANGED <<pullVars, relayVars, gwVars, readerVars>>
    /\ wpc = "pgrep"
    /\ \E g \in PgrepOutcomes :
        /\ trig' = [trig EXCEPT !.pgrep = g]
        /\ IF g = "found"
           THEN /\ wpc' = "kill"
                /\ UNCHANGED ret
           ELSE /\ wpc' = "returned"
                /\ ret' = Some(discover_success(trig.discover, g, "not run"))
    /\ UNCHANGED <<wargs, sigterms, wevent>>

\* Lines 77-79 and 83-85: subprocess.run(['kill', '-TERM', str(pid)]);
\* return True whether it ran or raised.
run_kill ==
    /\ UNCHANGED <<pullVars, relayVars, gwVars, readerVars>>
    /\ wpc = "kill"
    /\ \E k \in KillOutcomes :
        /\ trig' = [trig EXCEPT !.kill = k]
        /\ sigterms' = IF sigterm_sent(trig.discover, trig.pgrep, k)
                       THEN sigterms + 1 ELSE sigterms
        /\ ret' = Some(discover_success(trig.discover, trig.pgrep, k))
    /\ wpc' = "returned"
    /\ UNCHANGED <<wargs, wevent>>

\* Lines 160-163: discover_success = trigger...(); yield the complete event.
yield_complete ==
    /\ UNCHANGED <<pullVars, relayVars, gwVars, readerVars>>
    /\ wpc = "returned"
    /\ wevent' = Some(ret.val)
    /\ wpc' = "complete"
    /\ UNCHANGED <<wargs, trig, sigterms, ret>>

\* Line 177, in the finally block: current_download["in_progress"] = False.
release_in_progress ==
    /\ UNCHANGED <<pullRest, relayVars, gwVars, readerVars>>
    /\ wpc \in {"complete", "error"}
    /\ current_download' = [current_download EXCEPT !.in_progress = FALSE]
    /\ wpc' = "release_model"
    /\ UNCHANGED <<wargs, trig, sigterms, ret, wevent>>

\* Line 178: current_download["model"] = None.
release_model ==
    /\ UNCHANGED <<pullRest, relayVars, gwVars, readerVars>>
    /\ wpc = "release_model"
    /\ current_download' = [current_download EXCEPT !.model = None]
    /\ wpc' = "release_filename"
    /\ UNCHANGED <<wargs, trig, sigterms, ret, wevent>>

\* Line 179: current_download["filename"] = None; the pull is over.
release_filename ==
    /\ UNCHANGED <<pullRest, relayVars, gwVars, readerVars>>
    /\ wpc = "release_filename"
    /\ current_download' = [current_download EXCEPT !.filename = None]
    /\ wpc' = "idle"
    /\ UNCHANGED <<wargs, trig, sigterms, ret, wevent>>

workerVars == <<wpc, wargs, trig, sigterms, ret, wevent>>

\* root(), line 309: "in_progress": current_download["in_progress"].
root_in_progress ==
    /\ UNCHANGED <<pullVars, relayVars, gwVars, workerVars>>
    /\ spc \in {"idle", "reported"}
    /\ report' = [NoReport EXCEPT
                    !.in_progress = current_download.in_progress]
    /\ spc' = "model"

\* Line 310: "current_model": current_download["model"].
root_model ==
    /\ UNCHANGED <<pullVars, relayVars, gwVars, workerVars>>
    /\ spc = "model"
    /\ report' = [report EXCEPT !.current_model = current_download.model]
    /\ spc' = "filename"

\* Line 311: "current_filename": current_download["filename"]; the report
\* is returned.
root_filename ==
    /\ UNCHANGED <<pullVars, relayVars, gwVars, workerVars>>
    /\ spc = "filename"
    /\ report' = [report EXCEPT
                    !.current_filename = current_download.filename]
    /\ spc' = "reported"

NextStatus ==
    \/ acquire_in_progress
    \/ acquire_model
    \/ acquire_filename
    \/ download
    \/ run_discover
    \/ run_pgrep
    \/ run_kill
    \/ yield_complete
    \/ release_in_progress
    \/ release_model
    \/ release_filename
    \/ root_in_progress
    \/ root_model
    \/ root_filename

\* ======================================================== specifications
Init == PullInit /\ RelayInit /\ GatewayInit /\ StatusInit

Spec == Init /\ [][Next]_vars

SpecRelay == Init /\ [][NextRelay]_vars

SpecGateway == Init /\ [][NextGateway]_vars

SpecStatus == Init /\ [][NextStatus]_vars

\* ================================================================ claims
\* The last event a pull has yielded, "none" before the first.
LastStatus(p) ==
    IF events[p] = <<>> THEN "none" ELSE events[p][Len(events[p])].status

HasStatus(evs, st) == \E i \in 1..Len(evs) : evs[i].status = st

\* A body with non-empty model and filename.
ValidBody(d) == d.kind = "dict" /\ d.model \in Models /\ d.filename \in Files

\* A missing or empty body, or a missing or empty model or filename.
InvalidBody(d) ==
    \/ d.kind \in {"null", "emptydict"}
    \/ d.kind = "dict" /\ (d.model \in {None, ""} \/ d.filename \in {None, ""})

\* The handler of request p returns in this step.
Handled(p) == pc[p] = "arrived" /\ pc'[p] # "arrived"

Cleared(cd) == ~cd.in_progress /\ cd.model = None /\ cd.filename = None

\* C1: at most one pull is between its Idle->Busy acceptance and the end of
\* its event stream, under any interleaving of pull requests.
C1_AtMostOnePullActive ==
    Cardinality({p \in Reqs : Active(p)}) <= 1

C3_EndedStreamHasReleased ==
    \A p \in Reqs : pc[p] \in {"done", "closed"} => released[p]

\* C4: when the stream of a pull that reached an outcome (a complete or an
\* error event) ends, DownloadJob is cleared, and a cleared DownloadJob
\* changes only when a pull is accepted.
C4_ClearedAfterOutcome ==
    /\ [][\A p \in Reqs :
            (/\ LastStatus(p) \in {"complete", "error"}
             /\ Active(p)
             /\ pc'[p] \in {"done", "closed"})
            => Cleared(current_download')]_vars
    /\ [][(Cleared(current_download) /\ current_download' # current_download)
            => \E p \in Reqs : pc[p] = "arrived" /\ pc'[p] = "created"]_vars

\* C4 witness: one pull ended after `complete`, another after `error`, and
\* DownloadJob is cleared.
C4_Witness ==
    \E p, q \in Reqs :
        /\ pc[p] = "done" /\ LastStatus(p) = "complete"
        /\ pc[q] = "done" /\ LastStatus(q) = "error"
        /\ Cleared(current_download)

\* C5: a pull whose body is missing or empty, or whose model or filename is
\* missing or empty, is answered 400 and the step leaves DownloadJob as it
\* was, Idle or Busy; it yields no event and fetches nothing.
C5_BadRequestNoTransition ==
    /\ [][\A p \in Reqs :
            (Handled(p) /\ InvalidBody(data[p]))
            => /\ resp'[p].status = 400
               /\ current_download' = current_download
               /\ pc'[p] = "responded"
               /\ events' = events
               /\ fs' = fs]_vars
    /\ [](\A p \in Reqs :
            resp[p].status = 400
            => pc[p] = "responded" /\ events[p] = <<>> /\ discoverRuns[p] = 0)

\* C5 witness: a pull was answered 400 while another pull's job is Busy.
C5_Witness ==
    \E p, q \in Reqs :
        /\ resp[p].status = 400
        /\ pc[q] = "fetched"
        /\ current_download = mark_in_progress(args[q].model, args[q].filename)

\* C6: the events of a pull are a prefix of <<starting, terminal>>, with
\* starting carrying the request's model and filename and terminal being
\* complete or error; a stream consumed to its end has yielded both.
C6_EventSequence ==
    \A p \in Reqs :
        LET e == events[p] IN
        /\ Len(e) <= 2
        /\ Len(e) >= 1
           => /\ e[1].status = "starting"
              /\ e[1].model = args[p].model
              /\ e[1].filename = args[p].filename
              /\ args[p].model \in Models
              /\ args[p].filename \in Files
        /\ Len(e) = 2 => e[2].status \in {"complete", "error"}
        /\ pc[p] = "done" => Len(e) = 2

\* C6 witness: two streams consumed to the end, one ending in complete and
\* one in error.
C6_Witness ==
    \E p, q \in Reqs :
        /\ pc[p] = "done" /\ Len(events[p]) = 2 /\ LastStatus(p) = "complete"
        /\ pc[q] = "done" /\ Len(events[q]) = 2 /\ LastStatus(q) = "error"

\* The file fails the magic check: it cannot be read, or its first 4 bytes
\* are neither GGUF nor GGML.
BadMagic(f) ==
    \/ ~f.exists
    \/ ~f.readable
    \/ Len(f.content) < 4
    \/ <<f.content[1], f.content[2], f.content[3], f.content[4]>>
         \notin {GGUF, GGML}

\* C7: validating a file that fails the magic check leaves no file, yields
\* the terminal event error and runs no discovery and no termination signal,
\* then or later; validation lets only a file that passes the check go on,
\* and a stream never holds both an error and a complete event.
C7_InvalidFileNeverDiscovered ==
    /\ [][\A p \in Reqs :
            (pc[p] = "fetched" /\ pc'[p] # "fetched"
             /\ BadMagic(fs[local_path(p)]))
            => /\ ~fs'[local_path(p)].exists
               /\ pc'[p] = "error"
               /\ events'[p] # events[p]
               /\ events'[p][Len(events'[p])].status = "error"
               /\ discoverRuns'[p] = 0
               /\ termSignals'[p] = 0]_vars
    /\ [][\A p \in Reqs :
            (pc[p] = "fetched" /\ pc'[p] \notin {"fetched", "error"})
            => ~BadMagic(fs[local_path(p)])]_vars
    /\ [](\A p \in Reqs :
            HasStatus(events[p], "error")
            => /\ discoverRuns[p] = 0
               /\ termSignals[p] = 0
               /\ ~HasStatus(events[p], "complete"))
    /\ [](\A p \in Reqs :
            (discoverRuns[p] > 0 \/ HasStatus(events[p], "complete"))
            => pc[p] \in {"complete", "done", "closed"})

\* C7 witness: a pull whose file failed the check has yielded the
\* validation error; the file is gone and no discovery has run.
C7_Witness ==
    \E p \in Reqs :
        /\ pc[p] = "error"
        /\ LastStatus(p) = "error"
        /\ events[p][Len(events[p])].error = "not a valid GGUF/GGML model"
        /\ ~fs[local_path(p)].exists
        /\ discoverRuns[p] = 0

IsNonEmpty(c) == c # ""

\* C8: on POST /v1/generate with stream true the caller has been sent
\* exactly the backend's non-empty chunks, unmodified and in order, followed
\* by one error object if and only if the backend call failed (before the
\* first chunk or mid-stream); after the error object the stream only ends,
\* and no exception leaves the generator.
C8_RawPassthrough ==
    (rq.route = "generate" /\ rq.stream)
    => /\ out = SelectSeq(sent, IsNonEmpty)
                \o (IF failure # "none" THEN <<ErrorChunk>> ELSE <<>>)
       /\ ~escaped
       /\ failure # "none" => rpc \in {"error_yielded", "ended", "closed"}
       /\ rstatus \in {0, 200}

\* C8 witness: the backend delivered an empty and a non-empty chunk and then
\* failed; the stream has ended after the chunk and the error object.
C8_Witness ==
    /\ rq.route = "generate"
    /\ rq.stream
    /\ sent = <<"", "a">>
    /\ failure = "midstream"
    /\ out = <<"a", ErrorChunk>>
    /\ rpc = "ended"

\* C9: on the completions routes of proxy-wrapper.py with stream true, a
\* failure of the backend call is reported by a final error chunk and no
\* exception leaves the response generator.
C9_ChatStreamErrorInBand ==
    (/\ rq.variant = "wrapper"
     /\ rq.route \in {"completions", "chat"}
     /\ rq.stream
     /\ failure # "none")
    => /\ ~escaped
       /\ out # <<>>
       /\ out[Len(out)] = ErrorChunk

\* The request is answered by a stream fed from the backend.
StreamsFromBackend(r) ==
    r.stream /\ (r.route = "generate" \/ r.variant = "wrapper")

\* C10 as stated: a refused or timed out backend connection gives the caller
\* status 500 with a JSON error body, stream or not.
C10_BackendDownGives500 ==
    failure \in {"refused", "timeout"} => rstatus = 500 /\ rbody = "error"

\* C10 as amended: a refused or timed out backend connection gives status
\* 500 with a JSON error body on every request that is not answered by a
\* relayed stream; for a request answered by a relayed stream the handler
\* has returned a streamed response with status 200.
C10_BackendDownStatus ==
    failure \in {"refused", "timeout"}
    => IF StreamsFromBackend(rq)
       THEN rstatus = 200 /\ rbody = "stream"
       ELSE rstatus = 500 /\ rbody = "error"

\* C10 witness: a stream=true chat request on the lightweight variant, whose
\* backend call timed out, was answered 500.
C10_Witness ==
    /\ rq = [variant |-> "lightweight", route |-> "chat", stream |-> TRUE]
    /\ failure = "timeout"
    /\ rstatus = 500
    /\ rbody = "error"

\* C11: GET /v1/health with the backend down (refused or timed out) is
\* answered 503 with {"status": "unhealthy", "error": ...} in every variant;
\* when the backend answers, its body and status code are returned.
C11_HealthUnhealthy ==
    (gpc = "responded" /\ greq.route = "health")
    => /\ backend.conn \in {"refused", "timeout"}
          => gresp.status = 503 /\ gresp.body.kind = "unhealthy"
       /\ (backend.conn = "ok" /\ backend.json_ok)
          => gresp.status = backend.status /\ gresp.body.kind = "backend"

\* Every message of the list has a role and a content.
WellFormed(msgs) ==
    \A i \in 1..Len(msgs) : msgs[i].role.has /\ msgs[i].content.has

\* The lines "{role}: {content}" of the messages, first to last, with one
\* newline between two consecutive lines.
RECURSIVE JoinedLines(_)
JoinedLines(msgs) ==
    IF msgs = <<>> THEN ""
    ELSE LET l == msgs[1].role.val \o ": " \o msgs[1].content.val IN
         IF Len(msgs) = 1 THEN l ELSE l \o "\n" \o JoinedLines(Tail(msgs))

ExpectedPrompt(d) ==
    IF d.messages.has THEN JoinedLines(d.messages.val)
    ELSE IF d.prompt.has THEN d.prompt.val
    ELSE ""

\* C12: the prompt sent to the backend is, when `messages` is present, the
\* "{role}: {content}" lines of the messages in order joined by single
\* newlines (the empty string for no message), and when `messages` is
\* absent the `prompt` field, or the empty string if that is absent too.
C12_DerivedPrompt ==
    (/\ gpc = "responded"
     /\ greq.route = "completions"
     /\ greq.data.messages.has => WellFormed(greq.data.messages.val))
    => /\ native.prompt = Some(ExpectedPrompt(greq.data))
       /\ (greq.data.messages.has /\ greq.data.messages.val = <<>>)
          => native.prompt.val = ""

\* C12 witness: a chat request with two messages (and a prompt field, which
\* is ignored) was translated to the two lines.
C12_Witness ==
    /\ gpc = "responded"
    /\ greq.route = "completions"
    /\ greq.variant = "downloader"
    /\ greq.data.prompt.has
    /\ greq.data.messages = Some(<<[role |-> Some("user"), content |-> Some("hi")],
                                   [role |-> Some("assistant"), content |-> Some("")]>>)
    /\ native.prompt.val = "user: hi\nassistant: "

\* C13: a non-streamed request of proxy-wrapper.py that the backend answers
\* 200 with a JSON object gets an envelope, and every envelope follows the
\* request: with `messages` object chat.completion, message.content the
\* backend's response and usage with the two counts and their sum, without
\* `messages` object text_completion and text the backend's response.
C13_EnvelopeByDiscriminant ==
    LET b == gresp.body
        r == backend.result
    IN
    /\ (/\ gpc = "responded"
        /\ greq.variant = "wrapper"
        /\ greq.route = "completions"
        /\ backend.conn = "ok"
        /\ backend.json_ok
        /\ backend.status = 200)
       => b.kind = "envelope"
    /\ b.kind = "envelope"
       => IF greq.data.messages.has
          THEN /\ b.object = "chat.completion"
               /\ b.content.has
               /\ ~b.text.has
               /\ r.response.has => b.content.val = r.response.val
               /\ b.usage.has
               /\ (r.prompt_eval_count.has /\ r.eval_count.has)
                  => /\ b.usage.prompt_tokens = r.prompt_eval_count.val
                     /\ b.usage.completion_tokens = r.eval_count.val
                     /\ b.usage.total_tokens =
                          r.prompt_eval_count.val + r.eval_count.val
          ELSE /\ b.object = "text_completion"
               /\ b.text.has
               /\ ~b.content.has
               /\ r.response.has => b.text.val = r.response.val

\* C13 witness: the chat request of one message with stream false, against
\* a backend answering response "hello" and counts 3 and 2, got the chat
\* envelope with content "hello" and total_tokens 5.
C13_Witness ==
    /\ gpc = "responded"
    /\ greq.variant = "wrapper"
    /\ greq.data.messages = Some(<<[role |-> Some("user"), content |-> Some("hi")]>>)
    /\ greq.data.stream = Some(FALSE)
    /\ backend.kind = "full"
    /\ gresp.status = 200
    /\ gresp.body.object = "chat.completion"
    /\ gresp.body.content = Some("hello")
    /\ gresp.body.usage.total_tokens = 5

\* A request with stream absent or false, answered by a backend that echoes
\* the prompt as the response.
EchoRoundTrip ==
    /\ gpc = "responded"
    /\ greq.route = "completions"
    /\ ~(greq.data.stream.has /\ greq.data.stream.val)
    /\ backend.kind = "echo"

\* C14 as stated: every non-streamed request answered by an echoing backend
\* gets a response whose choices[0].message.content (chat) or choices[0].text
\* (completion) is the derived prompt.
C14_RoundTripEveryVariant ==
    EchoRoundTrip
    => /\ gresp.body.kind = "envelope"
       /\ IF greq.data.messages.has
          THEN gresp.body.content = Some(native.prompt.val)
          ELSE gresp.body.text = Some(native.prompt.val)

\* C14 as amended: in proxy-wrapper.py the response is the envelope whose
\* message.content (chat) or text (completion) is the derived prompt; in the
\* other two variants it is the backend's body, whose `response` is the
\* derived prompt.
C14_RoundTrip ==
    EchoRoundTrip
    => /\ native.prompt = Some(ExpectedPrompt(greq.data))
          \/ ~WellFormed(greq.data.messages.val)
       /\ IF greq.variant = "wrapper"
          THEN /\ gresp.body.kind = "envelope"
               /\ IF greq.data.messages.has
                  THEN gresp.body.content = Some(native.prompt.val)
                  ELSE gresp.body.text = Some(native.prompt.val)
          ELSE /\ gresp.body.kind = "native"
               /\ gresp.body.result.response = Some(native.prompt.val)

\* C14 witness: a chat request of two messages went through proxy-wrapper.py
\* and an echoing backend and came back as message.content.
C14_Witness ==
    /\ EchoRoundTrip
    /\ greq.variant = "wrapper"
    /\ Len(greq.data.messages.val) = 2
    /\ gresp.body.content = Some("user: hi\nassistant: ")
    /\ native.prompt.val = "user: hi\nassistant: "

\* C15: when the backend answers a non-streamed request of the transforming
\* completions route with a status that is not 2xx, the caller gets status
\* 500 with an {error} body.
C15_UpstreamErrorWrapped ==
    (/\ gpc = "responded"
     /\ greq.variant = "wrapper"
     /\ greq.route = "completions"
     /\ backend.conn = "ok"
     /\ backend.status \notin 200..299)
    => /\ gresp.status = 500
       /\ gresp.body.kind = "error"

\* C16: a status report of GET / never has in_progress false together with
\* a non-empty current_model or current_filename.
C16_ReportKeepsInvariant ==
    spc = "reported"
    => (~report.in_progress
        => report.current_model = None /\ report.current_filename = None)

\* C17: the complete event has discovered true exactly when `shimmy
\* discover` exited 0, whatever the process lookup and the signal did; the
\* signal is sent at most once, only after a discovery that succeeded and a
\* lookup that found the process, and the lookup and the signal never run
\* after a discovery that failed.
C17_DiscoveredIffDiscoverySucceeded ==
    /\ wevent.has => (wevent.val <=> trig.discover = "ok")
    /\ ret.has => (ret.val <=> trig.discover = "ok")
    /\ sigterms <= 1
    /\ sigterms = 1
       => trig.discover = "ok" /\ trig.pgrep = "found" /\ trig.kill = "sent"
    /\ trig.kill # "not run" => trig.discover = "ok" /\ trig.pgrep = "found"
    /\ trig.pgrep # "not run" => trig.discover = "ok"
    /\ trig.discover \in {"nonzero", "raise"} => sigterms = 0

\* C17 witness: discovery succeeded, the process was found, sending the
\* signal failed, and the complete event says discovered true.
C17_Witness ==
    /\ wevent = Some(TRUE)
    /\ trig = [discover |-> "ok", pgrep |-> "found", kill |-> "raise"]
    /\ sigterms = 0
    /\ wpc = "complete"

\* C18: closing the response generator of a streamed relay emits nothing (no
\* chunk, no error object) and reads nothing more; once closed, the relay
\* stays closed with its output as it was, and the backend connection is
\* not open; on both streaming routes.
C18_DisconnectStopsRelay ==
    /\ [][(rpc # "closed" /\ rpc' = "closed")
            => /\ out' = out
               /\ sent' = sent
               /\ failure' = failure
               /\ escaped' = escaped
               /\ conn' # "open"]_vars
    /\ [][rpc = "closed"
            => rpc' = "closed" /\ out' = out /\ sent' = sent]_vars
    /\ [](rpc = "closed" => conn # "open" /\ rq.stream)

\* C18 witness: the chat stream of proxy-wrapper.py was closed after its
\* first line, with the backend able to deliver more; the connection is
\* released.
C18_Witness ==
    /\ rpc = "closed"
    /\ rq = [variant |-> "wrapper", route |-> "chat", stream |-> TRUE]
    /\ sent = <<"a">>
    /\ out = <<"a\n">>
    /\ conn = "closed"
    /\ failure = "none"

\* C19: on the streaming completions routes of proxy-wrapper.py the caller
\* has been sent exactly the backend's non-empty lines so far, in order,
\* each as it came with one newline appended.
C19_LineReframing ==
    (/\ rq.variant = "wrapper"
     /\ rq.route \in {"completions", "chat"}
     /\ rq.stream)
    => LET lines == SelectSeq(sent, IsNonEmpty) IN
       /\ Len(out) = Len(lines)
       /\ \A i \in 1..Len(lines) : out[i] = lines[i] \o "\n"

\* C19 witness: the backend delivered an empty line and then a line, and
\* the stream ended with that one line sent.
C19_Witness ==
    /\ rq = [variant |-> "wrapper", route |-> "chat", stream |-> TRUE]
    /\ sent = <<"", "b">>
    /\ out = <<"b\n">>
    /\ rpc = "ended"
    /\ failure = "none"

\* The key has the request's value if the request has it, else the default.
CopiedOrDefault(n, o, dflt) ==
    n.has /\ n.val = (IF o.has THEN o.val ELSE dflt)

\* C20: the native request of every completions request carries model,
\* prompt, stream, temperature, max_tokens, top_p, frequency_penalty and
\* presence_penalty, each copied from the request when present and else the
\* documented default.
C20_ToNativeTotal ==
    (gpc = "responded" /\ greq.route = "completions")
    => LET d == greq.data IN
       /\ native.model.has
       /\ d.model.has => native.model.val = d.model.val
       /\ native.prompt.has
       /\ CopiedOrDefault(native.stream, d.stream, FALSE)
       /\ CopiedOrDefault(native.temperature, d.temperature, "0.7")
       /\ CopiedOrDefault(native.max_tokens, d.max_tokens, 512)
       /\ CopiedOrDefault(native.top_p, d.top_p, "1.0")
       /\ CopiedOrDefault(native.frequency_penalty, d.frequency_penalty, "0.0")
       /\ CopiedOrDefault(native.presence_penalty, d.presence_penalty, "0.0")

\* The handler of a request with this body fails before it acquires: the
\* body cannot be parsed as JSON, or is not a JSON object.
FailsBeforeAcquire(d) == d.kind \in {"unparsable", "list"}

\* C21: a pull whose body cannot be parsed as JSON or is not a JSON object
\* leaves DownloadJob as it was, and DownloadJob goes from Busy to Idle only
\* in a step that ends the event stream of a pull that was accepted.
C21_OnlyOwnerReleases ==
    /\ [][\A p \in Reqs :
            (Handled(p) /\ FailsBeforeAcquire(data[p]))
            => current_download' = current_download]_vars
    /\ [][(current_download.in_progress /\ ~current_download'.in_progress)
            => \E p \in Reqs :
                /\ Active(p)
                /\ pc'[p] \in {"done", "closed"}
                /\ released'[p]]_vars

\* C22: while a pull is between its acceptance and the end of its event
\* stream, DownloadJob is Busy with the model and filename of that pull; a
\* pull that has released is over, and an event is yielded only by a pull
\* that is accepted and has not released.
C22_StepsWhileBusy ==
    /\ [](\A p \in Reqs :
            /\ Active(p)
               => current_download =
                    mark_in_progress(args[p].model, args[p].filename)
            /\ released[p] => pc[p] \in {"done", "closed"})
    /\ [][\A p \in Reqs :
            (events'[p] # events[p] /\ events'[p] # <<>>)
            => Active(p) /\ Active(p)' /\ ~released[p] /\ ~released'[p]]_vars

====
